---- MODULE Spec2Model ----
(***************************************************************************)
(* A model of fallible-streaming-iterator (src/src/lib.rs): the trait's    *)
(* default methods and the adaptor family, driven over scripted sources.   *)
(*                                                                         *)
(* An iterator is a record tree: an adaptor record owns its source in the  *)
(* field `it`, exactly as the structs do.  A `&mut self` method is an      *)
(* operator from the iterator to [it |-> the iterator afterwards,          *)
(* res |-> the value returned]; a `&self` method is an operator to the     *)
(* value returned.                                                         *)
(***************************************************************************)
EXTENDS Integers, Sequences, FiniteSets, TLC

\* ---------------------------------------------------------------- bounds
MaxLen == 3        \* longest source script
MaxElem == 2       \* source elements are 1..MaxElem
MaxN == 3          \* largest count given to skip / take
MaxOps == 4        \* operations applied to one iterator
MaxQueryAt == 2    \* a query operation is one of the first MaxQueryAt
StackDepth == 3    \* call frames available to a self-recursive call

Elems == 1..MaxElem

\* ---------------------------------------------------------------- values
\* Option / Result values, all of one record shape.
Some(v) == [t |-> "some", v |-> v]
None == [t |-> "none", v |-> 0]
Err(e) == [t |-> "err", v |-> e]
Unit == [t |-> "unit", v |-> 0]          \* Ok(())
OkBool(b) == [t |-> IF b THEN "true" ELSE "false", v |-> 0]
OkCount(c) == [t |-> "count", v |-> c]
\* The call did not return: the recursion ran out of stack.
Abort == [t |-> "abort", v |-> 0]

\* `?` leaves the function on an error; a call that never returned leaves
\* every caller too.
Leaves(r) == r.t \in {"err", "abort"}

\* ------------------------------------------------------------- closures
\* FnMut(&Item) -> bool closures, by name; "!f" is the closure |e| !f(e).
Not(p) ==
    CASE p = "even" -> "!even"
      [] p = "odd" -> "!odd"
      [] p = "!even" -> "even"
      [] p = "!odd" -> "odd"
Holds(p, x) ==
    CASE p = "even" -> x % 2 = 0
      [] p = "odd" -> x % 2 = 1
      [] p = "!even" -> ~(x % 2 = 0)
      [] p = "!odd" -> ~(x % 2 = 1)
Preds == {"even", "odd"}
NoPred == "-"

\* FnMut(&Item) -> B closures.
Apply(f, x) ==
    CASE f = "double" -> 2 * x
      [] f = "succ" -> x + 1
      [] OTHER -> x
Fns == {"double", "succ"}

\* --------------------------------------------------------------- source
\* An implementer of the trait: its j-th advance has the j-th outcome of
\* its script (an element, exhaustion or an error) and exhaustion after it;
\* get reports the element the last advance produced and nothing before the
\* first advance, at exhaustion or after an error.  pos counts the calls of
\* advance.
Items == {Some(v) : v \in Elems} \cup {None, Err(1)}
SeqsUpTo(S, n) == UNION {[1..k -> S] : k \in 0..n}
Scripts == SeqsUpTo(Items, MaxLen)
Source(s) == [kind |-> "src", script |-> s, pos |-> 0]

Src_advance(self) ==
    LET p == self.pos + 1
    IN [it |-> [self EXCEPT !.pos = p],
        res |-> IF p <= Len(self.script) /\ self.script[p].t = "err"
                THEN self.script[p] ELSE Unit]

\* An exact size_hint: the elements the source produces before it is next
\* exhausted or fails.
RECURSIVE Ahead(_, _)
Ahead(s, p) ==
    IF p + 1 <= Len(s) /\ s[p + 1].t = "some" THEN 1 + Ahead(s, p + 1) ELSE 0

Hint(lo, hi) == [lo |-> lo, hi |-> hi]
SatSub(a, b) == IF a > b THEN a - b ELSE 0
\* Option::map(|h| h.saturating_sub(n))
MapSatSub(hi, n) == IF hi.t = "some" THEN Some(SatSub(hi.v, n)) ELSE None

Src_size_hint(self) ==
    Hint(Ahead(self.script, self.pos), Some(Ahead(self.script, self.pos)))

Src_get(self) ==
    IF self.pos >= 1 /\ self.pos <= Len(self.script)
       /\ self.script[self.pos].t = "some"
    THEN self.script[self.pos] ELSE None

\* ------------------------------------------------------- trait dispatch
RECURSIVE advance(_), get(_), next(_), size_hint(_)

\* fn next: advance followed by get.
Default_next(self) ==
    LET a == advance(self)
    IN IF Leaves(a.res) THEN a ELSE [it |-> a.it, res |-> get(a.it)]

\* fn all: (result, calls of f).
RECURSIVE all(_, _, _)
all(self, f, calls) ==
    LET r == next(self)
    IN IF Leaves(r.res) THEN [it |-> r.it, res |-> r.res, calls |-> calls]
       ELSE IF r.res.t = "none"
            THEN [it |-> r.it, res |-> OkBool(TRUE), calls |-> calls]
       ELSE IF ~Holds(f, r.res.v)
            THEN [it |-> r.it, res |-> OkBool(FALSE), calls |-> calls + 1]
       ELSE all(r.it, f, calls + 1)

\* count with `while let Ok(Some(_)) = self.next()`: an error ends the loop
\* like exhaustion does.
RECURSIVE count_swallow(_, _)
count_swallow(self, c) ==
    LET r == next(self)
    IN IF r.res.t = "abort" THEN [it |-> r.it, res |-> r.res]
       ELSE IF r.res.t \in {"none", "err"} THEN [it |-> r.it, res |-> OkCount(c)]
       ELSE count_swallow(r.it, c + 1)

\* fn count.
RECURSIVE count(_, _)
count(self, c) ==
    LET r == next(self)
    IN IF Leaves(r.res) THEN [it |-> r.it, res |-> r.res]
       ELSE IF r.res.t = "none" THEN [it |-> r.it, res |-> OkCount(c)]
       ELSE count(r.it, c + 1)

\* find ending in self.next() for (*self).get(): it advances once past the
\* element it found.
RECURSIVE find_overrun(_, _, _)
find_overrun(self, f, calls) ==
    LET a == advance(self)
    IN IF Leaves(a.res) THEN [it |-> a.it, res |-> a.res, calls |-> calls]
       ELSE LET g == get(a.it)
            IN IF g.t = "none"
               THEN [it |-> next(a.it).it, res |-> next(a.it).res, calls |-> calls]
               ELSE IF Holds(f, g.v)
                    THEN [it |-> next(a.it).it, res |-> next(a.it).res,
                          calls |-> calls + 1]
                    ELSE find_overrun(a.it, f, calls + 1)

\* fn find: (result, calls of f).
RECURSIVE find(_, _, _)
find(self, f, calls) ==
    LET a == advance(self)
    IN IF Leaves(a.res) THEN [it |-> a.it, res |-> a.res, calls |-> calls]
       ELSE LET g == get(a.it)
            IN IF g.t = "none"
               THEN [it |-> a.it, res |-> get(a.it), calls |-> calls]
               ELSE IF Holds(f, g.v)
                    THEN [it |-> a.it, res |-> get(a.it), calls |-> calls + 1]
                    ELSE find(a.it, f, calls + 1)

\* ------------------------------------------------------------ &mut I
\* log: the mutating calls made through the handle, in order.
by_ref(self) == [kind |-> "ref", it |-> self, log |-> <<>>]

Ref_advance(self) ==
    LET r == advance(self.it)
    IN [it |-> [self EXCEPT !.it = r.it, !.log = Append(@, "advance")],
        res |-> r.res]

Ref_get(self) == get(self.it)

Ref_size_hint(self) == size_hint(self.it)

\* <&mut I>::next forwarding to get: the referenced iterator is not advanced.
Ref_next_peek(self) ==
    [it |-> [self EXCEPT !.log = Append(@, "next")], res |-> get(self.it)]

Ref_next(self) ==
    LET r == next(self.it)
    IN [it |-> [self EXCEPT !.it = r.it, !.log = Append(@, "next")],
        res |-> r.res]

\* ------------------------------------------------------------ Filter
\* calls counts the invocations of the predicate.
filter(self, f) == [kind |-> "filter", it |-> self, f |-> f, calls |-> 0]

\* Filter::advance without the loop: it stops at the next element, whatever
\* the predicate says of it.
Filter_advance_once(self) ==
    LET r == next(self.it)
    IN IF Leaves(r.res) THEN [it |-> [self EXCEPT !.it = r.it], res |-> r.res]
       ELSE IF r.res.t = "none"
            THEN [it |-> [self EXCEPT !.it = r.it], res |-> Unit]
       ELSE [it |-> [self EXCEPT !.it = r.it, !.calls = @ + 1], res |-> Unit]

RECURSIVE Filter_advance(_)
Filter_advance(self) ==
    LET r == next(self.it)
    IN IF Leaves(r.res) THEN [it |-> [self EXCEPT !.it = r.it], res |-> r.res]
       ELSE IF r.res.t = "none"
            THEN [it |-> [self EXCEPT !.it = r.it], res |-> Unit]
       ELSE IF Holds(self.f, r.res.v)
            THEN [it |-> [self EXCEPT !.it = r.it, !.calls = @ + 1], res |-> Unit]
       ELSE Filter_advance([self EXCEPT !.it = r.it, !.calls = @ + 1])

Filter_get(self) == get(self.it)

Filter_size_hint(self) == Hint(0, size_hint(self.it).hi)

\* -------------------------------------------------------------- Fuse
fuse(self) == [kind |-> "fuse", it |-> self, state |-> "Start"]

\* Fuse::advance returning the source's error without moving to End.
Fuse_advance_err_resumes(self) ==
    IF self.state = "End" THEN [it |-> self, res |-> Unit]
    ELSE LET r == next(self.it)
         IN IF Leaves(r.res)
            THEN [it |-> [self EXCEPT !.it = r.it], res |-> r.res]
            ELSE IF r.res.t = "some"
            THEN [it |-> [self EXCEPT !.it = r.it, !.state = "Middle"], res |-> Unit]
            ELSE [it |-> [self EXCEPT !.it = r.it, !.state = "End"], res |-> Unit]

Fuse_advance(self) ==
    CASE self.state = "Start" ->
           LET r == next(self.it)
           IN IF r.res.t = "abort"
              THEN [it |-> [self EXCEPT !.it = r.it], res |-> r.res]
              ELSE IF r.res.t = "some"
              THEN [it |-> [self EXCEPT !.it = r.it, !.state = "Middle"], res |-> Unit]
              ELSE IF r.res.t = "none"
              THEN [it |-> [self EXCEPT !.it = r.it, !.state = "End"], res |-> Unit]
              ELSE [it |-> [self EXCEPT !.it = r.it, !.state = "End"], res |-> r.res]
      [] self.state = "Middle" ->
           LET r == next(self.it)
           IN IF r.res.t = "abort"
              THEN [it |-> [self EXCEPT !.it = r.it], res |-> r.res]
              ELSE IF r.res.t = "some"
              THEN [it |-> [self EXCEPT !.it = r.it], res |-> Unit]
              ELSE IF r.res.t = "none"
              THEN [it |-> [self EXCEPT !.it = r.it, !.state = "End"], res |-> Unit]
              ELSE [it |-> [self EXCEPT !.it = r.it, !.state = "End"], res |-> r.res]
      [] OTHER -> [it |-> self, res |-> Unit]

Fuse_get(self) == IF self.state = "Middle" THEN get(self.it) ELSE None

Fuse_size_hint(self) == size_hint(self.it)

\* Fuse::next returning the source's error without moving to End.
Fuse_next_err_resumes(self) ==
    IF self.state = "End" THEN [it |-> self, res |-> None]
    ELSE LET r == next(self.it)
         IN IF Leaves(r.res)
            THEN [it |-> [self EXCEPT !.it = r.it], res |-> r.res]
            ELSE IF r.res.t = "some"
            THEN [it |-> [self EXCEPT !.it = r.it, !.state = "Middle"], res |-> r.res]
            ELSE [it |-> [self EXCEPT !.it = r.it, !.state = "End"], res |-> r.res]

\* Fuse::next without the End arm: an ended Fuse pulls its source again.
Fuse_next_redrive(self) ==
    LET r == next(self.it)
    IN IF r.res.t = "abort"
       THEN [it |-> [self EXCEPT !.it = r.it], res |-> r.res]
       ELSE IF r.res.t = "some"
       THEN [it |-> [self EXCEPT !.it = r.it, !.state = "Middle"], res |-> r.res]
       ELSE [it |-> [self EXCEPT !.it = r.it, !.state = "End"], res |-> r.res]

\* Fuse::next whose Start arm returns the element without moving to Middle.
Fuse_next_keeps_start(self) ==
    IF self.state = "End" THEN [it |-> self, res |-> None]
    ELSE LET r == next(self.it)
         IN IF r.res.t = "abort" \/ (r.res.t = "some" /\ self.state = "Start")
            THEN [it |-> [self EXCEPT !.it = r.it], res |-> r.res]
            ELSE IF r.res.t = "some"
            THEN [it |-> [self EXCEPT !.it = r.it, !.state = "Middle"], res |-> r.res]
            ELSE [it |-> [self EXCEPT !.it = r.it, !.state = "End"], res |-> r.res]

Fuse_next(self) ==
    CASE self.state = "Start" ->
           LET r == next(self.it)
           IN IF r.res.t = "abort"
              THEN [it |-> [self EXCEPT !.it = r.it], res |-> r.res]
              ELSE IF r.res.t = "some"
              THEN [it |-> [self EXCEPT !.it = r.it, !.state = "Middle"], res |-> r.res]
              ELSE [it |-> [self EXCEPT !.it = r.it, !.state = "End"], res |-> r.res]
      [] self.state = "Middle" ->
           LET r == next(self.it)
           IN IF r.res.t = "abort"
              THEN [it |-> [self EXCEPT !.it = r.it], res |-> r.res]
              ELSE IF r.res.t = "some"
              THEN [it |-> [self EXCEPT !.it = r.it], res |-> r.res]
              ELSE [it |-> [self EXCEPT !.it = r.it, !.state = "End"], res |-> r.res]
      [] OTHER -> [it |-> self, res |-> None]

\* --------------------------------------------------------------- Map
\* calls counts the invocations of the transform.
map(self, f) == [kind |-> "map", it |-> self, f |-> f, value |-> None, calls |-> 0]

\* Map::advance that maps only when there is an element and otherwise
\* leaves the stored value as it was.
Map_advance_stale(self) ==
    LET r == next(self.it)
    IN IF Leaves(r.res) THEN [it |-> [self EXCEPT !.it = r.it], res |-> r.res]
       ELSE IF r.res.t = "some"
            THEN [it |-> [self EXCEPT !.it = r.it,
                                      !.value = Some(Apply(self.f, r.res.v)),
                                      !.calls = @ + 1],
                  res |-> Unit]
            ELSE [it |-> [self EXCEPT !.it = r.it], res |-> Unit]

Map_advance(self) ==
    LET r == next(self.it)
    IN IF Leaves(r.res) THEN [it |-> [self EXCEPT !.it = r.it], res |-> r.res]
       ELSE IF r.res.t = "some"
            THEN [it |-> [self EXCEPT !.it = r.it,
                                      !.value = Some(Apply(self.f, r.res.v)),
                                      !.calls = @ + 1],
                  res |-> Unit]
            ELSE [it |-> [self EXCEPT !.it = r.it, !.value = None], res |-> Unit]

Map_get(self) == self.value

Map_size_hint(self) == size_hint(self.it)

\* ------------------------------------------------------------ MapRef
map_ref(self, f) == [kind |-> "map_ref", it |-> self, f |-> f]

MapRef_advance(self) ==
    LET r == advance(self.it) IN [it |-> [self EXCEPT !.it = r.it], res |-> r.res]

MapRef_get(self) ==
    LET g == get(self.it)
    IN IF g.t = "some" THEN Some(Apply(self.f, g.v)) ELSE None

MapRef_size_hint(self) == size_hint(self.it)

\* -------------------------------------------------------------- Skip
skip(self, n) == [kind |-> "skip", it |-> self, n |-> n]

\* for _ in 0..self.n { if let None = self.it.next()? { return Ok(()) } }
\* brk: the body left the function (by `?` or by return).
RECURSIVE Skip_for(_, _)
Skip_for(src, i) ==
    IF i = 0 THEN [it |-> src, res |-> Unit, brk |-> FALSE]
    ELSE LET r == next(src)
         IN IF Leaves(r.res) THEN [it |-> r.it, res |-> r.res, brk |-> TRUE]
            ELSE IF r.res.t = "none" THEN [it |-> r.it, res |-> Unit, brk |-> TRUE]
            ELSE Skip_for(r.it, i - 1)

\* The body of Skip::advance in its frame-th nested call: it ends by calling
\* itself (self.advance()), and a call with no frame left never returns.
RECURSIVE Skip_advance_frame(_, _)
Skip_advance_frame(self, frame) ==
    IF frame > StackDepth THEN [it |-> self, res |-> Abort]
    ELSE LET l == Skip_for(self.it, self.n)
         IN IF l.brk THEN [it |-> [self EXCEPT !.it = l.it], res |-> l.res]
            ELSE Skip_advance_frame([self EXCEPT !.it = l.it, !.n = 0], frame + 1)

Skip_advance(self) == Skip_advance_frame(self, 1)

Skip_get(self) == get(self.it)

Skip_size_hint(self) ==
    LET hint == size_hint(self.it)
    IN Hint(SatSub(hint.lo, self.n), MapSatSub(hint.hi, self.n))

\* --------------------------------------------------------- SkipWhile
\* calls counts the invocations of the predicate.
skip_while(self, f) ==
    [kind |-> "skip_while", it |-> self, f |-> f, done |-> FALSE, calls |-> 0]

\* SkipWhile::advance that never sets done: every call skips the elements
\* that satisfy the predicate.
SkipWhile_advance_again(self) ==
    LET r == find(self.it, Not(self.f), 0)
    IN [it |-> [self EXCEPT !.it = r.it, !.calls = @ + r.calls],
        res |-> IF Leaves(r.res) THEN r.res ELSE Unit]

SkipWhile_advance(self) ==
    IF ~self.done
    THEN LET r == find(self.it, Not(self.f), 0)
         IN [it |-> [self EXCEPT !.done = TRUE, !.it = r.it, !.calls = @ + r.calls],
             res |-> IF Leaves(r.res) THEN r.res ELSE Unit]
    ELSE LET r == advance(self.it)
         IN [it |-> [self EXCEPT !.it = r.it], res |-> r.res]

SkipWhile_get(self) == get(self.it)

SkipWhile_size_hint(self) ==
    LET hint == size_hint(self.it)
    IN IF self.done THEN hint ELSE Hint(0, hint.hi)

\* -------------------------------------------------------------- Take
take(self, n) == [kind |-> "take", it |-> self, n |-> n, done |-> FALSE]

\* Take::advance advancing the source before it looks at n.
Take_advance_eager(self) ==
    LET r == advance(self.it)
    IN IF Leaves(r.res) THEN [it |-> [self EXCEPT !.it = r.it], res |-> r.res]
       ELSE IF self.n # 0
            THEN [it |-> [self EXCEPT !.it = r.it, !.n = @ - 1], res |-> Unit]
            ELSE [it |-> [self EXCEPT !.it = r.it, !.done = TRUE], res |-> Unit]

Take_advance(self) ==
    IF self.n # 0
    THEN LET r == advance(self.it)
         IN IF Leaves(r.res) THEN [it |-> [self EXCEPT !.it = r.it], res |-> r.res]
            ELSE [it |-> [self EXCEPT !.it = r.it, !.n = @ - 1], res |-> Unit]
    ELSE [it |-> [self EXCEPT !.done = TRUE], res |-> Unit]

Take_get(self) == IF self.done THEN get(self.it) ELSE None

Take_size_hint(self) ==
    IF self.done THEN Hint(0, Some(0))
    ELSE LET hint == size_hint(self.it)
         IN Hint(SatSub(hint.lo, self.n), MapSatSub(hint.hi, self.n))

\* --------------------------------------------------------- TakeWhile
\* calls counts the invocations of the predicate.
take_while(self, f) ==
    [kind |-> "take_while", it |-> self, f |-> f, done |-> FALSE, calls |-> 0]

\* TakeWhile::advance with `self.done = !(self.f)(v)`: an accepted element
\* after a rejected one clears done.
TakeWhile_advance_reopens(self) ==
    LET r == next(self.it)
    IN IF Leaves(r.res) THEN [it |-> [self EXCEPT !.it = r.it], res |-> r.res]
       ELSE IF r.res.t = "some"
            THEN [it |-> [self EXCEPT !.it = r.it, !.calls = @ + 1,
                                      !.done = ~Holds(self.f, r.res.v)],
                  res |-> Unit]
            ELSE [it |-> [self EXCEPT !.it = r.it], res |-> Unit]

TakeWhile_advance(self) ==
    LET r == next(self.it)
    IN IF Leaves(r.res) THEN [it |-> [self EXCEPT !.it = r.it], res |-> r.res]
       ELSE IF r.res.t = "some"
            THEN [it |-> [self EXCEPT !.it = r.it, !.calls = @ + 1,
                                      !.done = @ \/ ~Holds(self.f, r.res.v)],
                  res |-> Unit]
            ELSE [it |-> [self EXCEPT !.it = r.it], res |-> Unit]

TakeWhile_get(self) == IF self.done THEN None ELSE get(self.it)

TakeWhile_size_hint(self) ==
    IF self.done THEN Hint(0, Some(0)) ELSE Hint(0, size_hint(self.it).hi)

\* ------------------------------------------------- the implementations
advance(self) ==
    CASE self.kind = "src" -> Src_advance(self)
      [] self.kind = "ref" -> Ref_advance(self)
      [] self.kind = "filter" -> Filter_advance(self)
      [] self.kind = "fuse" -> Fuse_advance(self)
      [] self.kind = "map" -> Map_advance(self)
      [] self.kind = "map_ref" -> MapRef_advance(self)
      [] self.kind = "skip" -> Skip_advance(self)
      [] self.kind = "skip_while" -> SkipWhile_advance(self)
      [] self.kind = "take" -> Take_advance(self)
      [] self.kind = "take_while" -> TakeWhile_advance(self)

get(self) ==
    CASE self.kind = "src" -> Src_get(self)
      [] self.kind = "ref" -> Ref_get(self)
      [] self.kind = "filter" -> Filter_get(self)
      [] self.kind = "fuse" -> Fuse_get(self)
      [] self.kind = "map" -> Map_get(self)
      [] self.kind = "map_ref" -> MapRef_get(self)
      [] self.kind = "skip" -> Skip_get(self)
      [] self.kind = "skip_while" -> SkipWhile_get(self)
      [] self.kind = "take" -> Take_get(self)
      [] self.kind = "take_while" -> TakeWhile_get(self)

size_hint(self) ==
    CASE self.kind = "src" -> Src_size_hint(self)
      [] self.kind = "ref" -> Ref_size_hint(self)
      [] self.kind = "filter" -> Filter_size_hint(self)
      [] self.kind = "fuse" -> Fuse_size_hint(self)
      [] self.kind = "map" -> Map_size_hint(self)
      [] self.kind = "map_ref" -> MapRef_size_hint(self)
      [] self.kind = "skip" -> Skip_size_hint(self)
      [] self.kind = "skip_while" -> SkipWhile_size_hint(self)
      [] self.kind = "take" -> Take_size_hint(self)
      [] self.kind = "take_while" -> TakeWhile_size_hint(self)

\* Whether get(self) calls the get of the source: the path of the get
\* implementations above.
RECURSIVE GetReachesSource(_)
GetReachesSource(self) ==
    CASE self.kind = "src" -> TRUE
      [] self.kind = "fuse" -> self.state = "Middle" /\ GetReachesSource(self.it)
      [] self.kind = "map" -> FALSE
      [] self.kind = "take" -> self.done /\ GetReachesSource(self.it)
      [] self.kind = "take_while" -> ~self.done /\ GetReachesSource(self.it)
      [] OTHER -> GetReachesSource(self.it)

\* Fuse and &mut I override next; every other implementer has the default.
next(self) ==
    CASE self.kind = "fuse" -> Fuse_next(self)
      [] self.kind = "ref" -> Ref_next(self)
      [] OTHER -> Default_next(self)

\* ---------------------------------------------------------------- state
\* made: the iterator as it was constructed
\* it:   the iterator the caller owns, as it is now
\* hist: the calls made on it so far, each with the value it returned, what
\*       get reported once it had returned, and the number of times the
\*       source's advance had been called by then
\* cur:  the value of the caller's last get, Unit when an advance has been
\*       made since (the borrowed element is valid until then)
VARIABLES made, it, hist, cur
vars == <<made, it, hist, cur>>

RECURSIVE SourceOf(_)
SourceOf(self) == IF self.kind = "src" THEN self ELSE SourceOf(self.it)
Pulls(self) == SourceOf(self).pos
Script(self) == SourceOf(self).script

Entry(op, p, r) ==
    [op |-> op, p |-> p, res |-> r.res, got |-> get(r.it), pulls |-> Pulls(r.it)]

\* A call that never returned, or count (which takes self by value), ends
\* the use of the iterator.
Aborted == hist # <<>> /\ hist[Len(hist)].res.t = "abort"
Consumed == \E i \in 1..Len(hist) : hist[i].op = "count"
Live == Len(hist) < MaxOps /\ ~Aborted /\ ~Consumed

DoNext ==
    /\ Live
    /\ LET r == next(it)
       IN /\ it' = r.it
          /\ hist' = Append(hist, Entry("next", NoPred, r))
    /\ cur' = Unit
    /\ UNCHANGED made

DoAdvance ==
    /\ Live
    /\ LET r == advance(it)
       IN /\ it' = r.it
          /\ hist' = Append(hist, Entry("advance", NoPred, r))
    /\ cur' = Unit
    /\ UNCHANGED made

DoGet ==
    /\ ~Aborted /\ ~Consumed
    /\ cur' = get(it)
    /\ UNCHANGED <<made, it, hist>>

DoCount ==
    /\ Live /\ Len(hist) < MaxQueryAt
    /\ LET r == count(it, 0)
       IN /\ it' = r.it
          /\ hist' = Append(hist, Entry("count", NoPred, r))
    /\ cur' = Unit
    /\ UNCHANGED made

DoAll(p) ==
    /\ Live /\ Len(hist) < MaxQueryAt
    /\ LET r == all(it, p, 0)
       IN /\ it' = r.it
          /\ hist' = Append(hist, Entry("all", p, r))
    /\ cur' = Unit
    /\ UNCHANGED made

DoFind(p) ==
    /\ Live /\ Len(hist) < MaxQueryAt
    /\ LET r == find(it, p, 0)
       IN /\ it' = r.it
          /\ hist' = Append(hist, Entry("find", p, r))
    /\ cur' = Unit
    /\ UNCHANGED made

Sources == {Source(s) : s \in Scripts}
Counts == 0..MaxN

Fused == {fuse(s) : s \in Sources}
Taken == {take(s, n) : s \in Sources, n \in Counts}
Skipped == {skip(s, n) : s \in Sources, n \in Counts}
Filtered == {filter(s, p) : s \in Sources, p \in Preds}
Mapped == {map(s, f) : s \in Sources, f \in Fns}
Chained == {take(map(filter(s, p), "double"), n) :
              s \in Sources, p \in Preds, n \in Counts}
Others == {map_ref(s, "succ") : s \in Sources}
            \cup {skip_while(s, p) : s \in Sources, p \in Preds}
            \cup {take_while(s, p) : s \in Sources, p \in Preds}
            \cup {by_ref(s) : s \in Sources}

Start(S) == made \in S /\ it = made /\ hist = <<>> /\ cur = Unit

Step == DoNext \/ DoAdvance \/ DoGet
Query == Step \/ DoCount \/ (\E p \in Preds : DoAll(p)) \/ (\E p \in Preds : DoFind(p))

\* Every adaptor over every source, stepped by advance / next / get.
Init == Start(Fused \cup Taken \cup Skipped \cup Filtered \cup Mapped
                \cup Chained \cup Others)
Next == Step
Spec == Init /\ [][Next]_vars

\* One adaptor at a time.
FuseSpec == Start(Fused) /\ [][Step]_vars
TakeSpec == Start(Taken) /\ [][Step]_vars
SkipSpec == Start(Skipped) /\ [][Step]_vars
FilterSpec == Start(Filtered) /\ [][Step]_vars
MapSpec == Start(Mapped) /\ [][Step]_vars
ChainSpec == Start(Chained) /\ [][Step]_vars

TakenWhile == {take_while(s, p) : s \in Sources, p \in Preds}
TakeWhileSpec == Start(TakenWhile) /\ [][Step]_vars
SkippedWhile == {skip_while(s, p) : s \in Sources, p \in Preds}
SkipWhileSpec == Start(SkippedWhile) /\ [][Step]_vars

\* An iterator lent through by_ref, to the caller or to an adaptor.
Owned == Fused \cup {map(s, "succ") : s \in Sources}
Lent == {by_ref(x) : x \in Owned}
          \cup {filter(by_ref(x), p) : x \in Owned, p \in Preds}
          \cup {take_while(by_ref(x), p) : x \in Owned, p \in Preds}
RefSpec == Start(Lent) /\ [][Step]_vars

\* The query operations of the trait, on a source.
QuerySpec == Start(Sources) /\ [][Query]_vars

\* ------------------------------------------------------------ the claims
Min(a, b) == IF a < b THEN a ELSE b
\* The source is finite and never fails: its script holds elements only.
NonFailing(s) == \A i \in 1..Len(s) : s[i].t = "some"
\* The caller has only called next.
OnlyNext == \A i \in 1..Len(hist) : hist[i].op = "next"
\* What the source's p-th advance met.
Outcome(s, p) == IF p >= 1 /\ p <= Len(s) THEN s[p] ELSE None
\* The value a returning call of op hands back when there is no element.
Nothing(op) == IF op = "next" THEN None ELSE Unit

\* The i-th call on the Fuse reported no element or an error.
FuseEndedAt(i) ==
    \/ hist[i].res.t \in {"none", "err"}
    \/ hist[i].op = "advance" /\ hist[i].got.t = "none"

\* C1: once a call of next or advance on a Fuse has reported no element or
\* an error, every later call reports no element, get reports nothing, and
\* the source's advance is not called again, whatever the source would do.
C1_FuseStaysEnded ==
    made.kind = "fuse" =>
        \A i \in 1..Len(hist) :
            FuseEndedAt(i) =>
                /\ \A j \in (i + 1)..Len(hist) :
                       /\ hist[j].res = Nothing(hist[j].op)
                       /\ hist[j].got = None
                       /\ hist[j].pulls = hist[i].pulls
                /\ get(it) = None
                /\ cur \in {Unit, None}
                /\ Pulls(it) = hist[i].pulls

\* A Fuse that ended on its first call and was called twice more while its
\* source had an element left to give.
C1_Witness ==
    /\ made.kind = "fuse"
    /\ Len(hist) >= 3
    /\ FuseEndedAt(1)
    /\ hist[2].op = "next" /\ hist[3].op = "advance"
    /\ cur = None
    /\ Outcome(Script(it), Pulls(it) + 1).t = "some"

\* C2: over a finite non-failing source of k elements, next on take(n)
\* yields the first min(n, k) elements in order and then no element.
C2_TakeYieldsFirstN ==
    (made.kind = "take" /\ made.it.kind = "src"
     /\ NonFailing(Script(made)) /\ OnlyNext) =>
        LET m == Min(made.n, Len(Script(made)))
        IN \A i \in 1..Len(hist) :
               i <= m + 1 =>
                   hist[i].res = (IF i <= m THEN Script(made)[i] ELSE None)

\* C7: take(0) over a non-empty source: every next reports no element and
\* the source's advance is never called.
C7_TakeZeroLeavesSource ==
    (made.kind = "take" /\ made.it.kind = "src" /\ made.n = 0
     /\ Outcome(Script(made), 1).t = "some") =>
        /\ \A i \in 1..Len(hist) :
               /\ hist[i].res = Nothing(hist[i].op)
               /\ hist[i].got = None
        /\ Pulls(it) = 0

\* take(0) over a source with an element, after two next calls and a get.
C7_Witness ==
    /\ made.kind = "take" /\ made.it.kind = "src" /\ made.n = 0
    /\ Outcome(Script(made), 1).t = "some"
    /\ Len(hist) >= 2 /\ hist[1].op = "next" /\ hist[2].op = "next"
    /\ cur = None

\* The elements of a non-failing script that satisfy p, in order.
Matching(s, p) ==
    LET Test(x) == Holds(p, x.v) IN SelectSeq(s, Test)
\* f applied to each element of a non-failing script.
Transformed(s, f) == [i \in 1..Len(s) |-> Some(Apply(f, s[i].v))]
\* The calls of next made so far return the elements of e in order and, once
\* they are through, no element.
YieldsExactly(e) ==
    \A i \in 1..Len(hist) :
        i <= Len(e) + 1 => hist[i].res = (IF i <= Len(e) THEN e[i] ELSE None)

\* C3: over a finite non-failing source, next on filter(p).map(f).take(n)
\* returns the sequence take(n, map(f, filter(p, elements))).
C3_ChainIsEager ==
    (made.kind = "take" /\ made.it.kind = "map" /\ made.it.it.kind = "filter"
     /\ NonFailing(Script(made)) /\ OnlyNext) =>
        LET e == Transformed(Matching(Script(made), made.it.it.f), made.it.f)
        IN YieldsExactly(SubSeq(e, 1, Min(made.n, Len(e))))

\* C4: over a finite non-failing source of k elements, next on skip(n) with
\* n < k yields the elements n+1 .. k in order and then no element.
C4_SkipYieldsRest ==
    (made.kind = "skip" /\ NonFailing(Script(made)) /\ OnlyNext
     /\ made.n < Len(Script(made))) =>
        YieldsExactly(SubSeq(Script(made), made.n + 1, Len(Script(made))))

\* C5: over a finite non-failing source of k elements, the first next on
\* skip(n) with n >= k returns Ok(no element), and no call ever yields an
\* element, fails or does not return.
C5_SkipPastEnd ==
    (made.kind = "skip" /\ NonFailing(Script(made)) /\ OnlyNext
     /\ made.n >= Len(Script(made))) =>
        /\ Len(hist) >= 1 => hist[1].res = None
        /\ \A i \in 1..Len(hist) : hist[i].res.t \notin {"some", "err", "abort"}

\* C6: every call of an adaptor's advance (directly or through next)
\* returns, with success or with an error.
C6_AdvanceReturns ==
    \A i \in 1..Len(hist) :
        hist[i].op \in {"advance", "next"} => hist[i].res.t # "abort"

\* C8: over a finite non-failing source, next on filter(p) yields the
\* elements that satisfy p, in source order, and then no element; with no
\* such element the first next is Ok(no element).
C8_FilterYieldsMatching ==
    (made.kind = "filter" /\ NonFailing(Script(made)) /\ OnlyNext) =>
        YieldsExactly(Matching(Script(made), made.f))

\* A filter that dropped an element before its first match and has been
\* called through to exhaustion.
C8_Witness ==
    /\ made.kind = "filter" /\ NonFailing(Script(made)) /\ OnlyNext
    /\ Len(Script(made)) >= 3
    /\ ~Holds(made.f, Script(made)[1].v)
    /\ Len(Matching(Script(made), made.f)) >= 1
    /\ Len(hist) = Len(Matching(Script(made), made.f)) + 1
    /\ hist[Len(hist)].res = None

\* The number of elements the source has produced in its first p advances.
Produced(s, p) == Cardinality({i \in 1..Min(p, Len(s)) : s[i].t = "some"})

\* C9: map(f): a call that pulled an element e stores f(e), and next
\* returns it; f has been invoked once for each element the source produced
\* (so never on exhaustion, on an error, or by get); at exhaustion the stored
\* value is cleared and get returns nothing.
C9_MapOncePerElement ==
    made.kind = "map" =>
        /\ it.calls = Produced(Script(it), Pulls(it))
        /\ \A i \in 1..Len(hist) :
               LET o == Outcome(Script(it), hist[i].pulls)
               IN /\ o.t = "some" =>
                         /\ hist[i].got = Some(Apply(made.f, o.v))
                         /\ hist[i].op = "next" => hist[i].res = hist[i].got
                  /\ o.t = "none" =>
                         /\ hist[i].got = None
                         /\ hist[i].res = Nothing(hist[i].op)
                  /\ o.t = "err" => hist[i].res = o
        /\ Pulls(it) >= 1 /\ Outcome(Script(it), Pulls(it)).t = "none"
               => get(it) = None

\* A map whose source produced two elements, failed, and was then exhausted;
\* get was called after the exhaustion.
C9_Witness ==
    /\ made.kind = "map"
    /\ it.calls = 2
    /\ \E i \in 1..Len(hist) : hist[i].res.t = "err"
    /\ Pulls(it) >= 1 /\ Outcome(Script(it), Pulls(it)).t = "none"
    /\ cur = None

\* The source's first j - 1 advances produce elements and its j-th fails.
FailsAt(s, j) ==
    /\ j >= 1 /\ j <= Len(s) /\ s[j].t = "err"
    /\ \A i \in 1..(j - 1) : s[i].t = "some"
\* The number of source advances made before the i-th call.
PullsBefore(i) == IF i = 1 THEN 0 ELSE hist[i - 1].pulls

\* C10: on a source whose j-th advance fails with E after j - 1 elements,
\* count(), all(p) with p true of those elements, and find(p) with p false
\* of them return Err(E) with the source's advance called exactly j times.
C10_QueriesStopAtError ==
    made.kind = "src" =>
        \A j \in 1..Len(Script(made)) : \A i \in 1..Len(hist) :
            (/\ FailsAt(Script(made), j)
             /\ PullsBefore(i) < j
             /\ \/ hist[i].op = "count"
                \/ /\ hist[i].op = "all"
                   /\ \A k \in (PullsBefore(i) + 1)..(j - 1) :
                          Holds(hist[i].p, Script(made)[k].v)
                \/ /\ hist[i].op = "find"
                   /\ \A k \in (PullsBefore(i) + 1)..(j - 1) :
                          ~Holds(hist[i].p, Script(made)[k].v))
            => /\ hist[i].res = Script(made)[j]
               /\ hist[i].pulls = j

\* count() on a fresh source whose third advance fails: it has returned the
\* error after three advances.
C10_Witness ==
    /\ made.kind = "src"
    /\ FailsAt(Script(made), 3)
    /\ Len(hist) = 1 /\ hist[1].op = "count"
    /\ hist[1].res.t = "err" /\ hist[1].pulls = 3

\* The adaptors, each directly over a source.
AdaptorKinds ==
    {"filter", "fuse", "map", "map_ref", "skip", "skip_while", "take", "take_while"}
OverSource == made.kind \in AdaptorKinds /\ made.it.kind = "src"

\* C11 as claimed: after an adaptor's advance has returned an error, its get
\* returns nothing, later calls yield no element and the source is not
\* advanced again.
C11_ErrorIsTerminal ==
    OverSource =>
        \A i \in 1..Len(hist) :
            hist[i].res.t = "err" =>
                /\ hist[i].got = None
                /\ \A j \in (i + 1)..Len(hist) :
                       /\ hist[j].res = Nothing(hist[j].op)
                       /\ hist[j].got = None
                       /\ hist[j].pulls = hist[i].pulls
                /\ get(it) = None

\* C11 amended: only Fuse is terminal after an error (get returns nothing,
\* later calls return no element and leave the source alone); every other
\* adaptor keeps no record of the error, and its following advance or next
\* advances the source again.
C11_OnlyFuseIsTerminal ==
    OverSource =>
        \A i \in 1..Len(hist) :
            hist[i].res.t = "err" =>
                IF made.kind = "fuse"
                THEN /\ hist[i].got = None
                     /\ \A j \in (i + 1)..Len(hist) :
                            /\ hist[j].res = Nothing(hist[j].op)
                            /\ hist[j].got = None
                            /\ hist[j].pulls = hist[i].pulls
                     /\ get(it) = None
                ELSE i < Len(hist) => hist[i + 1].pulls > hist[i].pulls

\* A Fuse whose advance failed after an element, called twice more while the
\* source had an element left to give.
C11_Witness ==
    /\ made.kind = "fuse"
    /\ Len(hist) = 4
    /\ hist[1].res.t = "some"
    /\ hist[2].op = "advance" /\ hist[2].res.t = "err"
    /\ hist[3].op = "advance" /\ hist[4].op = "next"
    /\ Outcome(Script(it), Pulls(it) + 1).t = "some"

\* The handle inside an iterator built on one.
RECURSIVE Handle(_)
Handle(self) == IF self.kind = "ref" THEN self ELSE Handle(self.it)
HasHandle(self) == self.kind = "ref" \/ (self.kind # "src" /\ self.it.kind = "ref")
\* The calls of log made on x itself.
Direct(x, op) == IF op = "advance" THEN advance(x) ELSE next(x)
RECURSIVE Replay(_, _)
Replay(x, log) ==
    IF log = <<>> THEN x ELSE Replay(Direct(x, Head(log)).it, Tail(log))

\* C12: a handle made by by_ref forwards advance, get, size_hint and next to
\* the iterator it refers to and keeps nothing of its own: after any calls
\* through it, by the caller or by an adaptor built on it, that iterator is
\* in the state the same calls made on it directly leave it in, and each
\* call through the handle returned what the direct call returns.
C12_HandleIsTransparent ==
    HasHandle(made) =>
        LET h == Handle(it)
            o == Handle(made).it
        IN /\ h.it = Replay(o, h.log)
           /\ get(h) = get(Replay(o, h.log))
           /\ size_hint(h) = size_hint(Replay(o, h.log))
           /\ made.kind = "ref" =>
                  /\ h.log = [i \in 1..Len(hist) |-> hist[i].op]
                  /\ \A i \in 1..Len(hist) :
                         hist[i].res =
                             Direct(Replay(o, SubSeq(h.log, 1, i - 1)), h.log[i]).res

\* A filter built on a handle to a map: two calls on the filter made three
\* through the handle, and the map has transformed two elements.
C12_Witness ==
    /\ made.kind = "filter" /\ made.it.kind = "ref"
    /\ Handle(made).it.kind = "map"
    /\ Len(hist) = 2
    /\ Len(Handle(it).log) = 3
    /\ Handle(it).it.calls >= 2
    /\ hist[2].res.t = "some"

\* The number of elements the next calls on self yield before one of them
\* yields none (or fails, or does not return), among the first fuel calls.
RECURSIVE Yield(_, _)
Yield(self, fuel) ==
    IF fuel = 0 THEN 0
    ELSE LET r == next(self)
         IN IF r.res.t = "some" THEN 1 + Yield(r.it, fuel - 1) ELSE 0

\* C13: over a finite non-failing source with an exact size_hint, in every
\* reachable state an adaptor's size_hint (lo, hi) bounds the number r of
\* elements that further next calls on it still yield: lo <= r, and r <= hi
\* when hi is present.
C13_SizeHintBounds ==
    (OverSource /\ NonFailing(Script(made)) /\ ~Aborted) =>
        LET h == size_hint(it)
            r == Yield(it, MaxLen + 1)
        IN /\ h.lo <= r
           /\ h.hi.t = "some" => r <= h.hi.v

\* The length of the longest prefix of a non-failing script whose elements
\* all satisfy p.
RECURSIVE PrefixLen(_, _)
PrefixLen(s, p) ==
    IF s # <<>> /\ Holds(p, Head(s).v) THEN 1 + PrefixLen(Tail(s), p) ELSE 0

\* C14: over a finite non-failing source, next on take_while(p) yields the
\* longest prefix of elements satisfying p and then no element; once p has
\* rejected an element, every later get and next returns no element, also
\* when a later element of the source satisfies p.
C14_TakeWhilePrefix ==
    (made.kind = "take_while" /\ NonFailing(Script(made))) =>
        LET s == Script(made)
            m == PrefixLen(s, made.f)
        IN /\ OnlyNext => YieldsExactly(SubSeq(s, 1, m))
           /\ m < Len(s) =>
                  /\ \A i \in 1..Len(hist) :
                         hist[i].pulls > m =>
                             /\ hist[i].res = Nothing(hist[i].op)
                             /\ hist[i].got = None
                  /\ Pulls(it) > m => get(it) = None /\ cur \in {Unit, None}

\* take_while(p) that yielded an element, rejected the second, and then
\* pulled a third that satisfies p; get was called after it.
C14_Witness ==
    /\ made.kind = "take_while" /\ NonFailing(Script(made)) /\ OnlyNext
    /\ PrefixLen(Script(made), made.f) = 1
    /\ Len(hist) = 3 /\ Pulls(it) = 3
    /\ Holds(made.f, Outcome(Script(made), 3).v)
    /\ Outcome(Script(made), 3).t = "some"
    /\ cur = None

\* C15 as claimed: a source yields k elements and fails on its (k+1)-th
\* advance; after fusing it and draining the k elements with next, the
\* following next calls all return no element and the (k+1)-th advance of
\* the source is never made.
C15_FuseNeverPullsError ==
    (made.kind = "fuse" /\ OnlyNext) =>
        \A j \in 1..Len(Script(made)) :
            FailsAt(Script(made), j) =>
                \A i \in j..Len(hist) :
                    hist[i].res = None /\ hist[i].pulls < j

\* C15 amended: the next call after the k elements makes the source's
\* (k+1)-th advance and returns its error; every next after that returns no
\* element and the source is not advanced again.
C15_FuseReportsErrorOnce ==
    (made.kind = "fuse" /\ OnlyNext) =>
        \A j \in 1..Len(Script(made)) :
            FailsAt(Script(made), j) =>
                \A i \in 1..Len(hist) :
                    /\ i <= j => hist[i].res = Script(made)[i] /\ hist[i].pulls = i
                    /\ i > j => hist[i].res = None /\ hist[i].pulls = j

\* A Fuse over a source that yields one element, fails, and would yield
\* another: four next calls.
C15_Witness ==
    /\ made.kind = "fuse" /\ OnlyNext
    /\ FailsAt(Script(made), 2)
    /\ Outcome(Script(made), 3).t = "some"
    /\ Len(hist) = 4

\* The adaptor's get has been called since its last advance: by the caller,
\* or by the default next once its advance had returned.
GetCalled ==
    \/ cur # Unit
    \/ /\ hist[Len(hist)].op = "next"
       /\ ~Leaves(hist[Len(hist)].res)
       /\ made.kind # "fuse"

\* C16: an adaptor over a fresh source, once its advance or next has been
\* called, never calls the source's get before the source's advance has
\* been called.
C16_SourceAdvancedBeforeGet ==
    (OverSource /\ hist # <<>> /\ ~Aborted) =>
        ~(GetCalled /\ GetReachesSource(it) /\ Pulls(it) = 0)

\* C17: over a finite non-failing source, the first advance of skip_while(p)
\* skips the longest prefix of elements satisfying p and stops on the first
\* element that does not (or at exhaustion); every later advance makes one
\* advance of the source and does not call p, so the remaining elements are
\* yielded in order, those satisfying p too.
C17_SkipWhileSkipsPrefixOnce ==
    (made.kind = "skip_while" /\ NonFailing(Script(made))) =>
        LET s == Script(made)
            m == PrefixLen(s, made.f)
        IN /\ OnlyNext => YieldsExactly(SubSeq(s, m + 1, Len(s)))
           /\ it.calls = (IF hist = <<>> THEN 0 ELSE Min(m + 1, Len(s)))
           /\ \A i \in 1..Len(hist) :
                  /\ hist[i].pulls = m + i
                  /\ hist[i].got = Outcome(s, m + i)
                  /\ hist[i].op = "next" => hist[i].res = hist[i].got

\* skip_while(p) that skipped one element and yielded the two after it, the
\* second of which satisfies p.
C17_Witness ==
    /\ made.kind = "skip_while" /\ NonFailing(Script(made)) /\ OnlyNext
    /\ PrefixLen(Script(made), made.f) = 1
    /\ Len(hist) = 3
    /\ hist[2].res.t = "some" /\ Holds(made.f, hist[2].res.v)
    /\ hist[3].res = None

\* The least element of a non-empty set of numbers.
Least(S) == CHOOSE x \in S : \A y \in S : x <= y

\* C18: find(p) on a finite non-failing iterator returns the first element
\* not yet consumed that satisfies p, or nothing when there is none; on a
\* match the iterator stands on that element: get returns it and a following
\* next yields its successor.
C18_FindStopsOnMatch ==
    (made.kind = "src" /\ NonFailing(Script(made))) =>
        \A i \in 1..Len(hist) :
            (hist[i].op = "find" /\ PullsBefore(i) <= Len(Script(made))) =>
                LET s == Script(made)
                    M == {j \in (PullsBefore(i) + 1)..Len(s) : Holds(hist[i].p, s[j].v)}
                IN IF M = {}
                   THEN hist[i].res = None /\ hist[i].got = None
                   ELSE /\ hist[i].res = s[Least(M)]
                        /\ hist[i].pulls = Least(M)
                        /\ hist[i].got = s[Least(M)]
                        /\ (i = Len(hist) /\ cur # Unit) => cur = s[Least(M)]
                        /\ (i < Len(hist) /\ hist[i + 1].op = "next") =>
                               hist[i + 1].res = Outcome(s, Least(M) + 1)

\* find passed over an element, returned the second, and the next after it
\* yielded the third.
C18_Witness ==
    /\ made.kind = "src" /\ NonFailing(Script(made))
    /\ Len(hist) = 2
    /\ hist[1].op = "find" /\ hist[1].res.t = "some" /\ hist[1].pulls = 2
    /\ hist[2].op = "next" /\ hist[2].res.t = "some"

\* The advances of the source, among its first p, that returned an error.
Failed(s, p) == Cardinality({i \in 1..p : Outcome(s, i).t = "err"})

\* C19 as claimed: for take(n) over any source, the source's advance is
\* called at most n times in all, the remaining count never goes below 0,
\* and once it is 0 an advance only sets done and leaves the source alone.
C19_TakePullsAtMostN ==
    (made.kind = "take" /\ made.it.kind = "src") =>
        /\ Pulls(it) <= made.n
        /\ it.n >= 0
        /\ it.n = 0 =>
               advance(it) = [it |-> [it EXCEPT !.done = TRUE], res |-> Unit]

\* C19 amended: the source's advance returns successfully at most n times in
\* all (the remaining count is n less the successful advances; an advance
\* that failed is not counted and may be followed by another), the
\* remaining count never goes below 0, and once it is 0 an advance only sets
\* done and leaves the source alone.
C19_TakeCountsSuccesses ==
    (made.kind = "take" /\ made.it.kind = "src") =>
        /\ Pulls(it) - Failed(Script(it), Pulls(it)) = made.n - it.n
        /\ it.n >= 0 /\ it.n <= made.n
        /\ it.n = 0 =>
               advance(it) = [it |-> [it EXCEPT !.done = TRUE], res |-> Unit]

\* take(1) whose first advance failed, whose second succeeded and whose
\* third found the count at 0: the source has been advanced twice.
C19_Witness ==
    /\ made.kind = "take" /\ made.it.kind = "src" /\ made.n = 1
    /\ Len(hist) = 3
    /\ hist[1].res.t = "err"
    /\ hist[2].pulls = 2 /\ hist[3].pulls = 2
    /\ it.n = 0 /\ it.done

\* C20: Fuse's own next does what the trait's default next (Fuse::advance,
\* then Fuse::get) would do: from every state of a Fuse and whatever its
\* source does next, the two return the same value and leave the same Fuse:
\* the same state and the same source, advanced the same number of times.
C20_FuseNextIsDefaultNext ==
    it.kind = "fuse" =>
        /\ Fuse_next(it).res = Default_next(it).res
        /\ Fuse_next(it).it.state = Default_next(it).it.state
        /\ Pulls(Fuse_next(it).it) = Pulls(Default_next(it).it)
        /\ Fuse_next(it).it = Default_next(it).it

\* A Fuse that has yielded an element, has met an error in Middle and has
\* been called once more at End: all three states have been left by a call.
C20_Witness ==
    /\ made.kind = "fuse" /\ made.it.kind = "src"
    /\ Len(hist) = 3
    /\ hist[1].res.t = "some"
    /\ hist[2].res.t = "err"
    /\ hist[3].res.t = "none" /\ hist[3].pulls = 2
    /\ it.state = "End"

====
